---- MODULE Spec2Model ----
(***************************************************************************)
(* ScalarCore<C> of elliptic-curve/src/scalar/core.rs: a scalar modulo the *)
(* order of a curve C, wrapping the fixed-width unsigned integer C::UInt.   *)
(*                                                                         *)
(* A ScalarCore is modelled by the value of its only field, `inner`.       *)
(* A subtle::Choice is modelled by its u8, 0 or 1.  The curve parameter C  *)
(* is instantiated by small descriptors: a UInt of BYTE_SIZE bytes of      *)
(* ByteBits bits each, and an order MODULUS drawn from Moduli.             *)
(***************************************************************************)
EXTENDS Integers, Sequences, FiniteSets

\* ------------------------------------------------------------ the curve

\* Bits of one byte of the model (a u8 has 8).
ByteBits == 2

\* Bits of the u64 of the model (a u64 has 64).
U64Bits == 3

\* The largest curve order the model draws.
MaxModulus == 11

\* C::UInt::BYTE_SIZE, the number of bytes of a C::UInt.
BYTE_SIZE == 2

RECURSIVE Pow(_, _)
Pow(base, e) == IF e = 0 THEN 1 ELSE base * Pow(base, e - 1)

ByteRadix == Pow(2, ByteBits)
Bytes == 0 .. (ByteRadix - 1)

\* C::UInt: BYTE_SIZE bytes wide; its arithmetic wraps at Wrap.
UIntBits == BYTE_SIZE * ByteBits
Wrap == Pow(2, UIntBits)
UIntVals == 0 .. (Wrap - 1)

U64Vals == 0 .. (Pow(2, U64Bits) - 1)

\* Curve orders: n > 1, representable in C::UInt.
Moduli == { m \in 2 .. MaxModulus : m < Wrap }

\* FieldBytes<C>: the byte arrays of exactly BYTE_SIZE bytes.
FieldBytes == [1 .. BYTE_SIZE -> Bytes]

\* &[u8]: byte slices, one byte longer than a FieldBytes at most.
Slices == UNION { [1 .. len -> Bytes] : len \in 0 .. (BYTE_SIZE + 1) }

VARIABLES
    MODULUS,   \* ScalarCore::MODULUS = C::ORDER, fixed for a behaviour
    a,         \* the storage of the caller's scalar `a` (its inner)
    b,         \* the storage of the caller's scalar `b` (its inner)
    alive,     \* the scalars among "a", "b" whose scope has not ended
    slice,     \* the byte input handed to a decoder
    last       \* the last function applied and what it returned

vars == <<MODULUS, a, b, alive, slice, last>>

\* ------------------------------------------- the big-integer engine

\* Limb arithmetic: add with carry, subtract with borrow, at UInt width.
adc(x, y, carry) ==
    [w |-> (x + y + carry) % Wrap, carry |-> (x + y + carry) \div Wrap]

sbb(x, y, borrow) ==
    [w |-> (x - y - borrow) % Wrap,
     borrow |-> IF x - y - borrow < 0 THEN 1 ELSE 0]

\* AddMod::add_mod: self + rhs mod p, by one conditional subtraction of p.
add_mod(x, y, p) ==
    LET s == adc(x, y, 0)
        d == sbb(s.w, p, 0)
        under == sbb(s.carry, 0, d.borrow).borrow
    IN  (d.w + (IF under = 1 THEN p ELSE 0)) % Wrap

\* SubMod::sub_mod: self - rhs mod p, by one conditional addition of p.
sub_mod(x, y, p) ==
    LET d == sbb(x, y, 0)
    IN  (d.w + (IF d.borrow = 1 THEN p ELSE 0)) % Wrap

\* NegMod::neg_mod: p - self, and zero for zero.
neg_mod(x, p) == IF x = 0 THEN 0 ELSE sbb(p, x, 0).w

\* Constant-time comparisons of two UInt, as a Choice.
UInt_ct_eq(x, y) == IF x = y THEN 1 ELSE 0

UInt_ct_lt(x, y) == sbb(x, y, 0).borrow

UInt_ct_gt(x, y) == sbb(y, x, 0).borrow

\* Ord::cmp of two UInt.
UInt_cmp(x, y) ==
    IF UInt_ct_lt(x, y) = 1 THEN "Less"
    ELSE IF UInt_ct_eq(x, y) = 1 THEN "Equal" ELSE "Greater"

RECURSIVE BitAnd(_, _)
BitAnd(x, y) ==
    IF x = 0 \/ y = 0 THEN 0
    ELSE (x % 2) * (y % 2) + 2 * BitAnd(x \div 2, y \div 2)

RECURSIVE BitXor(_, _)
BitXor(x, y) ==
    IF x = 0 THEN y
    ELSE IF y = 0 THEN x
    ELSE (((x % 2) + (y % 2)) % 2) + 2 * BitXor(x \div 2, y \div 2)

\* ConditionallySelectable for UInt: x ^ (mask & (x ^ y)), mask = -choice.
UInt_conditional_select(x, y, choice) ==
    LET mask == choice * (Wrap - 1)
    IN  BitXor(x, BitAnd(mask, BitXor(x, y)))

\* ArrayEncoding: a UInt from and to its big endian and little endian bytes.
RECURSIVE be_value(_, _)
be_value(bytes, len) ==
    IF len = 0 THEN 0 ELSE be_value(bytes, len - 1) * ByteRadix + bytes[len]

from_be_byte_array(bytes) == be_value(bytes, BYTE_SIZE)

from_le_byte_array(bytes) ==
    be_value([i \in 1 .. BYTE_SIZE |-> bytes[BYTE_SIZE + 1 - i]], BYTE_SIZE)

to_be_byte_array(x) ==
    [i \in 1 .. BYTE_SIZE |-> (x \div Pow(ByteRadix, BYTE_SIZE - i)) % ByteRadix]

to_le_byte_array(x) ==
    [i \in 1 .. BYTE_SIZE |-> (x \div Pow(ByteRadix, i - 1)) % ByteRadix]

\* From<u64> for UInt: the value in the low limb, the rest zero.
UInt_from_u64(v) == v

\* GenericArray::clone_from_slice: panics unless the lengths agree.
clone_from_slice(s) ==
    IF Len(s) = BYTE_SIZE THEN [panicked |-> FALSE, array |-> s]
    ELSE [panicked |-> TRUE, array |-> <<>>]

\* Option::from(CtOption<T>).ok_or(Error).
ok_or(opt) ==
    [tag |-> IF opt.is_some = 1 THEN "Ok" ELSE "Err",
     value |-> IF opt.is_some = 1 THEN opt.value ELSE 0,
     steps |-> opt.steps \o <<"Option::from", "ok_or">>]

\* ------------------------------------------------------- ScalarCore

ZERO == 0

ONE == 1

\* #[derive(Default)]: C::UInt::default(), which is zero.
default == 0

\* new with the range test off by one: uint <= MODULUS.
new_inclusive(uint) ==
    [value |-> uint,
     is_some |-> 1 - UInt_ct_gt(uint, MODULUS),
     steps |-> <<"ct_lt", "CtOption::new">>]

\* new branching on the comparison: Some on one path, None on the other.
new_branching(uint) ==
    IF uint < MODULUS
    THEN [value |-> uint, is_some |-> 1, steps |-> <<"lt", "CtOption::some">>]
    ELSE [value |-> uint, is_some |-> 0, steps |-> <<"lt", "CtOption::none">>]

\* new: the scalar and the presence flag, with the calls made in order.
new(uint) ==
    [value |-> uint,
     is_some |-> UInt_ct_lt(uint, MODULUS),
     steps |-> <<"ct_lt", "CtOption::new">>]

from_be_bytes(bytes) ==
    LET r == new(from_be_byte_array(bytes))
    IN  [r EXCEPT !.steps = <<"from_be_byte_array">> \o @]

from_le_bytes(bytes) ==
    LET r == new(from_le_byte_array(bytes))
    IN  [r EXCEPT !.steps = <<"from_le_byte_array">> \o @]

\* from_be_slice without its length test.
from_be_slice_unchecked(s) ==
    LET arr == clone_from_slice(s)
    IN  IF arr.panicked
        THEN [tag |-> "Panic", value |-> 0, steps |-> <<"clone_from_slice", "panic">>]
        ELSE LET res == ok_or(from_be_bytes(arr.array))
             IN  [res EXCEPT !.steps = <<"clone_from_slice">> \o @]

from_be_slice(s) ==
    IF Len(s) = BYTE_SIZE
    THEN LET arr == clone_from_slice(s)
         IN  IF arr.panicked
             THEN [tag |-> "Panic", value |-> 0,
                   steps |-> <<"clone_from_slice", "panic">>]
             ELSE LET res == ok_or(from_be_bytes(arr.array))
                  IN  [res EXCEPT !.steps = <<"clone_from_slice">> \o @]
    ELSE [tag |-> "Err", value |-> 0, steps |-> <<>>]

from_le_slice(s) ==
    IF Len(s) = BYTE_SIZE
    THEN LET arr == clone_from_slice(s)
         IN  IF arr.panicked
             THEN [tag |-> "Panic", value |-> 0,
                   steps |-> <<"clone_from_slice", "panic">>]
             ELSE LET res == ok_or(from_le_bytes(arr.array))
                  IN  [res EXCEPT !.steps = <<"clone_from_slice">> \o @]
    ELSE [tag |-> "Err", value |-> 0, steps |-> <<>>]

to_be_bytes(s) == to_be_byte_array(s)

\* to_bytes_le encoding big endian.
to_bytes_le_big(s) == to_be_byte_array(s)

to_bytes_le(s) == to_le_byte_array(s)

\* conditional_select with its operands exchanged.
conditional_select_swapped(x, y, choice) == UInt_conditional_select(y, x, choice)

conditional_select(x, y, choice) == UInt_conditional_select(x, y, choice)

ct_eq(x, y) == UInt_ct_eq(x, y)

ct_lt(x, y) == UInt_ct_lt(x, y)

\* ct_gt asking ct_lt.
ct_gt_as_lt(x, y) == UInt_ct_lt(x, y)

ct_gt(x, y) == UInt_ct_gt(x, y)

\* PartialEq::eq
eq(x, y) == ct_eq(x, y) = 1

\* Ord::cmp
cmp(x, y) == UInt_cmp(x, y)

\* From<u64> for ScalarCore
from_u64(v) == UInt_from_u64(v)

\* add without the reduction: a wrapping addition.
add_wrapping(x, y) == adc(x, y, 0).w

add(x, y) == add_mod(x, y, MODULUS)

add_assign(x, y) == add(x, y)

\* sub with its operands exchanged.
sub_swapped(x, y) == sub_mod(y, x, MODULUS)

sub(x, y) == sub_mod(x, y, MODULUS)

sub_assign(x, y) == sub(x, y)

neg(x) == neg_mod(x, MODULUS)

\* RandomMod::random_mod: candidates are drawn until one is below p.
random_mod_accepts(r, p) == UInt_ct_lt(r, p) = 1

\* random: a candidate the sampler accepts for MODULUS.
random(r) == r

\* Zeroize through DefaultIsZeroes: the storage is overwritten by the default.
zeroize(x) == default

\* ------------------------------------------ a caller using the scalars
\* A caller holds two scalars, `a` and `b`.  Every value it obtains goes
\* to `a`; `let b = a` copies it (ScalarCore is Copy).  A scalar whose
\* scope ends keeps its storage as it was: a Copy type has no Drop.

Init ==
    /\ MODULUS \in Moduli
    /\ a = 0
    /\ b = 0
    /\ alive = {}
    /\ slice = <<>>
    /\ last = [op |-> "none"]

\* The value obtained is bound to `a`; nothing else changes.
Bound ==
    /\ alive' = alive \cup {"a"}
    /\ UNCHANGED <<MODULUS, b, slice, last>>

Zero == a' = ZERO /\ Bound

One == a' = ONE /\ Bound

Default == a' = default /\ Bound

Random ==
    \E r \in UIntVals :
        random_mod_accepts(r, MODULUS) /\ a' = random(r) /\ Bound

\* On an absent CtOption or an Err the caller has no scalar to bind.
New ==
    \E uint \in UIntVals :
        new(uint).is_some = 1 /\ a' = new(uint).value /\ Bound

FromBeBytes ==
    \E bytes \in FieldBytes :
        from_be_bytes(bytes).is_some = 1 /\ a' = from_be_bytes(bytes).value /\ Bound

FromLeBytes ==
    \E bytes \in FieldBytes :
        from_le_bytes(bytes).is_some = 1 /\ a' = from_le_bytes(bytes).value /\ Bound

FromBeSlice ==
    \E s \in Slices :
        from_be_slice(s).tag = "Ok" /\ a' = from_be_slice(s).value /\ Bound

FromLeSlice ==
    \E s \in Slices :
        from_le_slice(s).tag = "Ok" /\ a' = from_le_slice(s).value /\ Bound

FromU64 == \E v \in U64Vals : a' = from_u64(v) /\ Bound

Both == alive = {"a", "b"}

Add == Both /\ a' = add(a, b) /\ Bound

AddAssign == Both /\ a' = add_assign(a, b) /\ Bound

Sub == Both /\ a' = sub(a, b) /\ Bound

SubAssign == Both /\ a' = sub_assign(a, b) /\ Bound

Neg == "a" \in alive /\ a' = neg(a) /\ Bound

ConditionalSelect ==
    \E choice \in {0, 1} :
        Both /\ a' = conditional_select(a, b, choice) /\ Bound

\* let b = a;
Copy ==
    /\ "a" \in alive
    /\ b' = a
    /\ alive' = alive \cup {"b"}
    /\ UNCHANGED <<MODULUS, a, slice, last>>

\* a.zeroize() or b.zeroize(), called by the caller.
Zeroize ==
    \E s \in alive :
        /\ a' = IF s = "a" THEN zeroize(a) ELSE a
        /\ b' = IF s = "b" THEN zeroize(b) ELSE b
        /\ UNCHANGED <<MODULUS, alive, slice, last>>

\* The scope of a scalar ends: nothing runs, its storage is left as it is.
ScopeEnd ==
    \E s \in alive :
        /\ alive' = alive \ {s}
        /\ UNCHANGED <<MODULUS, a, b, slice, last>>

Next ==
    \/ Zero \/ One \/ Default \/ Random \/ New
    \/ FromBeBytes \/ FromLeBytes \/ FromBeSlice \/ FromLeSlice \/ FromU64
    \/ Add \/ AddAssign \/ Sub \/ SubAssign \/ Neg \/ ConditionalSelect
    \/ Copy \/ Zeroize \/ ScopeEnd

Spec == Init /\ [][Next]_vars

\* ------------------------------- each function applied to drawn inputs
\* The inputs are two UInt values (scalars when below MODULUS), or a byte
\* slice; one function is applied and `last` holds what it returned.

InitFn ==
    /\ MODULUS \in Moduli
    /\ alive = {"a", "b"}
    /\ \/ /\ a \in UIntVals
          /\ b \in UIntVals
          /\ slice = <<>>
          /\ last = [op |-> "init", kind |-> "scalars"]
       \/ /\ a = 0
          /\ b = 0
          /\ slice \in Slices
          /\ last = [op |-> "init", kind |-> "bytes"]

\* The inputs are of this kind and no function has been applied yet.
Ready(kind) ==
    /\ last.op = "init"
    /\ last.kind = kind
    /\ UNCHANGED <<MODULUS, a, b, alive, slice>>

ApplyNew == Ready("scalars") /\ last' = [op |-> "new", out |-> new(a)]

ApplyFromBeBytes ==
    /\ Ready("bytes")
    /\ Len(slice) = BYTE_SIZE
    /\ last' = [op |-> "from_be_bytes", out |-> from_be_bytes(slice)]

ApplyFromLeBytes ==
    /\ Ready("bytes")
    /\ Len(slice) = BYTE_SIZE
    /\ last' = [op |-> "from_le_bytes", out |-> from_le_bytes(slice)]

ApplyFromBeSlice ==
    Ready("bytes") /\ last' = [op |-> "from_be_slice", out |-> from_be_slice(slice)]

ApplyFromLeSlice ==
    Ready("bytes") /\ last' = [op |-> "from_le_slice", out |-> from_le_slice(slice)]

ApplyAdd == Ready("scalars") /\ last' = [op |-> "add", out |-> add(a, b)]

ApplySub == Ready("scalars") /\ last' = [op |-> "sub", out |-> sub(a, b)]

ApplyNeg == Ready("scalars") /\ last' = [op |-> "neg", out |-> neg(a)]

\* a + (-a), a - b, a + (-b), a + ZERO, a - a
ApplyGroup ==
    /\ Ready("scalars")
    /\ last' = [op |-> "group",
                out |-> [add_neg |-> add(a, neg(a)), sub |-> sub(a, b),
                         add_negb |-> add(a, neg(b)), add_zero |-> add(a, ZERO),
                         sub_self |-> sub(a, a)]]

\* decode(encode(a)), both ways round
ApplyEncode ==
    /\ Ready("scalars")
    /\ last' = [op |-> "encode",
                out |-> [be |-> to_be_bytes(a), le |-> to_bytes_le(a),
                         be_back |-> from_be_bytes(to_be_bytes(a)),
                         le_back |-> from_le_bytes(to_bytes_le(a))]]

ApplyCompare ==
    /\ Ready("scalars")
    /\ last' = [op |-> "compare",
                out |-> [lt |-> ct_lt(a, b), eq |-> ct_eq(a, b), gt |-> ct_gt(a, b),
                         rlt |-> ct_lt(b, a), rgt |-> ct_gt(b, a),
                         cmp |-> cmp(a, b), peq |-> eq(a, b)]]

ApplySelect ==
    \E choice \in {0, 1} :
        /\ Ready("scalars")
        /\ last' = [op |-> "select",
                    out |-> [choice |-> choice,
                             value |-> conditional_select(a, b, choice)]]

NextFn ==
    \/ ApplyNew \/ ApplyFromBeBytes \/ ApplyFromLeBytes
    \/ ApplyFromBeSlice \/ ApplyFromLeSlice
    \/ ApplyAdd \/ ApplySub \/ ApplyNeg \/ ApplyGroup
    \/ ApplyEncode \/ ApplyCompare \/ ApplySelect

SpecFn == InitFn /\ [][NextFn]_vars

\* ------------------------------------------------------- the claims

InRange(x) == x \in 0 .. (MODULUS - 1)

\* C1: after any sequence of the public operations, every scalar the
\* caller holds has 0 <= inner < MODULUS, whatever the modulus n > 1,
\* From<u64> included.
C1_RangeInvariant ==
    /\ "a" \in alive => InRange(a)
    /\ "b" \in alive => InRange(b)

\* C2: new(x) is present iff x < n, and then its inner is x; new(n - 1) is
\* present and no valid scalar is greater; new(x) is absent for every x >= n.
C2_NewIffBelowModulus ==
    last.op = "new" =>
        /\ (last.out.is_some = 1) <=> (a < MODULUS)
        /\ last.out.value = a
        /\ a = MODULUS - 1 =>
              /\ last.out.is_some = 1
              /\ \A v \in UIntVals :
                    new(v).is_some = 1 => cmp(last.out.value, v) # "Less"
        /\ a >= MODULUS => last.out.is_some = 0

C2_Witness ==
    last.op = "new" /\ a = MODULUS - 1 /\ last.out.is_some = 1

\* C3: for valid a, b: add is (a + b) mod n, sub is (a - b) mod n, neg is
\* (n - a) mod n with neg(ZERO) = ZERO, each reduced into [0, n); with
\* n = 11, a = 7, b = 9: add = 5, sub = 9, neg(a) = 4.
C3_ModularArithmetic ==
    (InRange(a) /\ InRange(b)) =>
        /\ last.op = "add" =>
              /\ last.out = (a + b) % MODULUS
              /\ InRange(last.out)
              /\ (MODULUS = 11 /\ a = 7 /\ b = 9) => last.out = 5
        /\ last.op = "sub" =>
              /\ last.out = (a - b) % MODULUS
              /\ InRange(last.out)
              /\ (MODULUS = 11 /\ a = 7 /\ b = 9) => last.out = 9
        /\ last.op = "neg" =>
              /\ last.out = (MODULUS - a) % MODULUS
              /\ InRange(last.out)
              /\ a = ZERO => last.out = ZERO
              /\ (MODULUS = 11 /\ a = 7) => last.out = 4

C3_Witness ==
    /\ MODULUS = 11 /\ a = 7 /\ b = 9
    /\ last.op = "sub" /\ last.out = 9

\* C4: for valid a, b: a + (-a) = ZERO, a - b = a + (-b), a + ZERO = a and
\* a - a = ZERO.
C4_GroupIdentities ==
    (last.op = "group" /\ InRange(a) /\ InRange(b)) =>
        /\ eq(last.out.add_neg, ZERO)
        /\ eq(last.out.sub, last.out.add_negb)
        /\ eq(last.out.add_zero, a)
        /\ eq(last.out.sub_self, ZERO)

C4_Witness ==
    /\ last.op = "group" /\ InRange(a) /\ InRange(b)
    /\ a < b /\ a # ZERO
    /\ last.out.sub = MODULUS - (b - a)

\* C5: encoding never fails and gives BYTE_SIZE bytes; for a valid a,
\* decoding the big endian bytes of a, and the little endian bytes of a,
\* is present and equals a.
C5_EncodingRoundTrip ==
    last.op = "encode" =>
        /\ last.out.be \in FieldBytes
        /\ last.out.le \in FieldBytes
        /\ InRange(a) =>
              /\ last.out.be_back.is_some = 1
              /\ eq(last.out.be_back.value, a)
              /\ last.out.le_back.is_some = 1
              /\ eq(last.out.le_back.value, a)

C5_Witness ==
    /\ last.op = "encode" /\ InRange(a)
    /\ last.out.be # last.out.le
    /\ last.out.le_back.value = a

\* C6: from_be_slice and from_le_slice return an error for every slice
\* whose length is not BYTE_SIZE, whatever its bytes and with no call that
\* reads them; for a slice of
\* BYTE_SIZE bytes they return Ok(s) iff the fixed-width decode of the
\* bytes is present, s being that scalar, and otherwise an error, never a
\* panic.
LengthError(res) == res.tag = "Err" /\ res.steps = <<>>

SliceAgrees(res, fixed) ==
    /\ res.tag \in {"Ok", "Err"}
    /\ (res.tag = "Ok") <=> (fixed.is_some = 1)
    /\ res.tag = "Ok" => eq(res.value, fixed.value)
    /\ fixed.value >= MODULUS => res.tag = "Err"

C6_SliceDecoding ==
    /\ last.op = "from_be_slice" =>
          IF Len(slice) # BYTE_SIZE THEN LengthError(last.out)
          ELSE SliceAgrees(last.out, from_be_bytes(slice))
    /\ last.op = "from_le_slice" =>
          IF Len(slice) # BYTE_SIZE THEN LengthError(last.out)
          ELSE SliceAgrees(last.out, from_le_bytes(slice))

C6_Witness ==
    /\ last.op = "from_be_slice"
    /\ Len(slice) = BYTE_SIZE + 1
    /\ last.out.tag = "Err"

\* C7: of ct_lt, ct_eq, ct_gt exactly one holds, each as the magnitudes of
\* the inner integers compare; the order is antisymmetric and transitive;
\* cmp is Less, Equal, Greater as ct_lt, ct_eq, ct_gt hold, and eq is ct_eq.
C7_TotalOrder ==
    last.op = "compare" =>
        LET o == last.out
        IN  /\ o.lt + o.eq + o.gt = 1
            /\ (o.lt = 1) <=> (a < b)
            /\ (o.eq = 1) <=> (a = b)
            /\ (o.gt = 1) <=> (a > b)
            /\ ~ (o.lt = 1 /\ o.rlt = 1)
            /\ (o.lt = 1) <=> (o.rgt = 1)
            /\ (o.gt = 1) <=> (o.rlt = 1)
            /\ \A c \in UIntVals :
                  (o.lt = 1 /\ ct_lt(b, c) = 1) => ct_lt(a, c) = 1
            /\ (o.cmp = "Less") <=> (o.lt = 1)
            /\ (o.cmp = "Equal") <=> (o.eq = 1)
            /\ (o.cmp = "Greater") <=> (o.gt = 1)
            /\ o.peq <=> (o.eq = 1)

C7_Witness ==
    last.op = "compare" /\ a > b /\ last.out.cmp = "Greater"

\* C8: conditional_select(a, b, 0) is a and conditional_select(a, b, 1) is
\* b: the result is one of the operands, and valid when both are.
C8_SelectionCorrect ==
    last.op = "select" =>
        /\ last.out.choice = 0 => eq(last.out.value, a)
        /\ last.out.choice = 1 => eq(last.out.value, b)
        /\ last.out.value \in {a, b}
        /\ (InRange(a) /\ InRange(b)) => InRange(last.out.value)

C8_Witness ==
    /\ last.op = "select" /\ a # b
    /\ last.out.choice = 1 /\ last.out.value = b

\* C9: new, from_be_bytes and from_le_bytes make the same calls in the same
\* order for every input of the width, none of them a panic; an input out of
\* range shows in is_some alone: the value is carried all the same.
C9_SameStepsForEveryInput ==
    /\ last.op = "new" =>
          /\ \A x \in UIntVals : new(x).steps = last.out.steps
          /\ last.out.value = a
          /\ last.out.is_some \in {0, 1}
    /\ last.op = "from_be_bytes" =>
          /\ \A bytes \in FieldBytes :
                from_be_bytes(bytes).steps = last.out.steps
          /\ last.out.is_some \in {0, 1}
    /\ last.op = "from_le_bytes" =>
          /\ \A bytes \in FieldBytes :
                from_le_bytes(bytes).steps = last.out.steps
          /\ last.out.is_some \in {0, 1}
    /\ last.op \in {"new", "from_be_bytes", "from_le_bytes"} =>
          \A i \in 1 .. Len(last.out.steps) : last.out.steps[i] # "panic"

C9_Witness ==
    /\ last.op = "from_be_bytes"
    /\ last.out.is_some = 0
    /\ last.out.value >= MODULUS

\* C10: when the scope of a scalar ends its storage holds zero, for every
\* scalar and every copy, without the caller asking for it.
C10_WipedAtScopeEnd ==
    /\ "a" \notin alive => a = 0
    /\ "b" \notin alive => b = 0

====
